---- MODULE Spec2Model ----
(***************************************************************************)
(* SpeakStream backend: one WebSocket connection loop (main.py), the chat  *)
(* handler that drives a turn (chat_handler.py), the streaming synthesis   *)
(* generator with its boundary detection (tts_handler.py) and the text     *)
(* source wrapper (llm_handler.py).                                        *)
(*                                                                         *)
(* Text is a sequence of one-character strings; Python's 0-based offsets   *)
(* are kept in MatchAt, RFind, Prefix and Suffix so that the cut           *)
(* arithmetic of the code is reproduced literally.                         *)
(***************************************************************************)
EXTENDS Integers, Sequences, FiniteSets, TLC

\* ------------------------------------------------------------------------
\* Python str primitives used by the handlers
\* ------------------------------------------------------------------------

\* str.isspace() for one character.
IsSpace(ch) == ch \in {" ", "\n", "\t"}

\* text[:k]
Prefix(text, k) == SubSeq(text, 1, k)

\* Faulty variant of Suffix: the character at offset k is left out.
SuffixPastNext(text, k) == SubSeq(text, k + 2, Len(text))

\* text[k:]
Suffix(text, k) == SubSeq(text, k + 1, Len(text))

\* pattern occurs in text at 0-based offset i
MatchAt(text, pat, i) ==
    /\ i >= 0
    /\ i + Len(pat) <= Len(text)
    /\ \A j \in 1..Len(pat) : text[i + j] = pat[j]

\* pat in text
Contains(pat, text) == \E i \in 0..Len(text) : MatchAt(text, pat, i)

Highest(S) == CHOOSE i \in S : \A k \in S : k <= i

\* text.rfind(pat): the highest offset of an occurrence, -1 when there is none
RFind(text, pat) ==
    LET hits == {i \in 0..Len(text) : MatchAt(text, pat, i)}
    IN IF hits = {} THEN -1 ELSE Highest(hits)

\* the 1-based positions of the non-whitespace characters of text
Solid(text) == {i \in 1..Len(text) : ~IsSpace(text[i])}

\* text.strip(): from the first to the last non-whitespace character
Strip(text) ==
    IF \A i \in 1..Len(text) : IsSpace(text[i]) THEN <<>>
    ELSE LET first == CHOOSE i \in 1..Len(text) :
                        ~IsSpace(text[i]) /\ \A k \in 1..(i - 1) : IsSpace(text[k])
             last == CHOOSE i \in 1..Len(text) :
                        ~IsSpace(text[i]) /\ \A k \in (i + 1)..Len(text) : IsSpace(text[k])
         IN SubSeq(text, first, last)

\* text.split(): the maximal runs of non-whitespace characters, in order
Split(text) ==
    LET starts == {i \in Solid(text) : i = 1 \/ IsSpace(text[i - 1])}
        ends == {i \in Solid(text) : i = Len(text) \/ IsSpace(text[i + 1])}
        nth(S, k) == CHOOSE i \in S : Cardinality({j \in S : j < i}) = k - 1
    IN [k \in 1..Cardinality(starts) |-> SubSeq(text, nth(starts, k), nth(ends, k))]

RECURSIVE Join(_)
\* ' '.join(words)
Join(words) ==
    IF words = <<>> THEN <<>>
    ELSE IF Len(words) = 1 THEN words[1]
    ELSE words[1] \o <<" ">> \o Join(Tail(words))

RECURSIVE Concat(_)
\* "".join(parts)
Concat(parts) ==
    IF parts = <<>> THEN <<>> ELSE Head(parts) \o Concat(Tail(parts))

\* ------------------------------------------------------------------------
\* TTSHandler: boundary detection (tts_handler.py)
\* ------------------------------------------------------------------------

MinSynthLen == 10
NaturalBreakLen == 30
MaxSynthLen == 80

EmDash == "emdash"

ShouldSentenceEndings ==
    << <<".", " ">>, <<"!", " ">>, <<"?", " ">>,
       <<".", "\n">>, <<"!", "\n">>, <<"?", "\n">> >>

ExtractSentenceEndings == << <<".", " ">>, <<"!", " ">>, <<"?", " ">> >>

NaturalBreaks ==
    << <<",", " ">>, <<";", " ">>, <<" ", "-", " ">>, <<" ", EmDash, " ">> >>

\* Faulty variant of ShouldSynthesize: the length of the text is not tested
\* before its sentence endings are.
ShouldSynthesizeAnyLength(text) ==
    IF \E k \in 1..Len(ShouldSentenceEndings) :
           Contains(ShouldSentenceEndings[k], text) THEN TRUE
    ELSE IF /\ Len(text) > NaturalBreakLen
            /\ \E k \in 1..Len(NaturalBreaks) : Contains(NaturalBreaks[k], text) THEN TRUE
    ELSE Len(text) > MaxSynthLen

\* TTSHandler._should_synthesize
ShouldSynthesize(text) ==
    IF Len(text) < MinSynthLen THEN FALSE
    ELSE IF \E k \in 1..Len(ShouldSentenceEndings) :
                Contains(ShouldSentenceEndings[k], text) THEN TRUE
    ELSE IF /\ Len(text) > NaturalBreakLen
            /\ \E k \in 1..Len(NaturalBreaks) : Contains(NaturalBreaks[k], text) THEN TRUE
    ELSE Len(text) > MaxSynthLen

RECURSIVE SentenceScan(_, _, _, _)
\* the loop over sentence_endings: pos is compared with best_pos, which holds
\* the END of the best match so far
SentenceScan(text, endings, k, best_pos) ==
    IF k > Len(endings) THEN best_pos
    ELSE LET pos == RFind(text, endings[k])
         IN SentenceScan(text, endings, k + 1,
                IF pos > best_pos THEN pos + Len(endings[k]) ELSE best_pos)

RECURSIVE BreakScan(_, _, _, _)
\* the loop over natural_breaks
BreakScan(text, breaks, k, best_pos) ==
    IF k > Len(breaks) THEN best_pos
    ELSE LET pos == RFind(text, breaks[k])
         IN BreakScan(text, breaks, k + 1,
                IF pos > 0 /\ pos > best_pos THEN pos + Len(breaks[k]) ELSE best_pos)

\* the forced split of a long text at the middle word
WordSplit(text) ==
    LET words == Split(text)
        mid_point == Len(words) \div 2
    IN << Strip(Join(SubSeq(words, 1, mid_point))),
          Strip(Join(SubSeq(words, mid_point + 1, Len(words)))) >>

\* TTSHandler._extract_synthesis_text: <<text to synthesize, remaining text>>
ExtractSynthesisText(text) ==
    LET best1 == SentenceScan(text, ExtractSentenceEndings, 1, -1)
        best2 == IF Len(text) > NaturalBreakLen
                 THEN BreakScan(text, NaturalBreaks, 1, best1)
                 ELSE best1
    IN IF best1 > 0 THEN << Strip(Prefix(text, best1)), Strip(Suffix(text, best1)) >>
       ELSE IF best2 > 0 THEN << Strip(Prefix(text, best2)), Strip(Suffix(text, best2)) >>
       ELSE IF Len(text) > MaxSynthLen THEN WordSplit(text)
       ELSE << Strip(text), <<>> >>

\* ------------------------------------------------------------------------
\* TextChunker: streaming chunker (text_chunker.py)
\* ------------------------------------------------------------------------

DefaultMinChunkSize == 10
DefaultMaxChunkSize == 100

ChunkerSentenceEndings ==
    << <<".", " ">>, <<"!", " ">>, <<"?", " ">>,
       <<".", "\n">>, <<"!", "\n">>, <<"?", "\n">>,
       <<".">>, <<"!">>, <<"?">> >>

PhraseBoundaries ==
    << <<",", " ">>, <<";", " ">>, <<" ", "-", " ">>, <<" ", EmDash, " ">>,
       <<":", " ">>, <<" ", "a", "n", "d", " ">>, <<" ", "b", "u", "t", " ">>,
       <<" ", "o", "r", " ">> >>

RECURSIVE BreakPointScan(_, _, _, _, _)
\* the loops over sentence_endings and phrase_boundaries: a match counts when
\* it starts after best_break and at or after min_chunk_size
BreakPointScan(text, markers, k, best_break, min_chunk_size) ==
    IF k > Len(markers) THEN best_break
    ELSE LET pos == RFind(text, markers[k])
         IN BreakPointScan(text, markers, k + 1,
                IF pos > best_break /\ pos >= min_chunk_size
                THEN pos + Len(markers[k]) ELSE best_break,
                min_chunk_size)

\* Faulty variant of MidPoint: the split point is the start of the text.
MidPointAtStart(words) == 0

\* mid_point = len(words) // 2
MidPoint(words) == Len(words) \div 2

\* TextChunker.chunk_streaming_text: <<text to synthesize, remaining text>>
ChunkStreamingText(buffer, min_chunk_size, max_chunk_size) ==
    IF Len(buffer) < min_chunk_size THEN << <<>>, buffer >>
    ELSE LET best1 == BreakPointScan(buffer, ChunkerSentenceEndings, 1, -1, min_chunk_size)
             best_break ==
                 IF best1 = -1 /\ Len(buffer) > min_chunk_size * 2
                 THEN BreakPointScan(buffer, PhraseBoundaries, 1, best1, min_chunk_size)
                 ELSE best1
             words == Split(buffer)
             mid_point == MidPoint(words)
         IN IF best_break = -1 /\ Len(buffer) > max_chunk_size /\ mid_point > 0
            THEN << Join(SubSeq(words, 1, mid_point)),
                    Join(SubSeq(words, mid_point + 1, Len(words))) >>
            ELSE IF best_break > 0
            THEN << Strip(Prefix(buffer, best_break)), Strip(Suffix(buffer, best_break)) >>
            ELSE << <<>>, buffer >>

\* ------------------------------------------------------------------------
\* Bounds and inputs
\* ------------------------------------------------------------------------

\* the most increments the text source yields in one turn
MaxIncrements == 3

\* the connections of the server process
Conns == {1, 2}

IncHello ==
    <<"H", "e", "l", "l", "o", " ", "t", "h", "e", "r", "e", ".", " ">>
IncHow == <<"H", "o", "w", " ">>
IncFox ==
    <<" ", "t", "h", "e", " ", "q", "u", "i", "c", "k", " ", "b", "r", "o", "w",
      "n", " ", "f", "o", "x", " ", "j", "u", "m", "p", "s", " ", "o", "v", "e",
      "r", " ", "t", "h", "e", " ", "l", "a", "z", "y", " ", "d", "o", "g">>
IncNewline == <<".", "\n">>

\* the increments the text source may yield (all non-empty: generate_stream
\* skips empty pieces)
Increments == {IncHello, IncHow, IncFox, IncNewline}

IncStop == <<".", " ">>

\* one increment of 200 characters: forty words and no punctuation
Inc200 ==
    Join([i \in 1..40 |-> IF i = 40 THEN <<"w", "o", "r", "d", "s">>
                                    ELSE <<"w", "o", "r", "d">>])

\* the increments of the runs with long buffers
LongIncrements == {Inc200, IncStop}

\* the increments of the conversation "Hello there. How are you?"
IncHelloWord == <<"H", "e", "l", "l", "o">>
IncThere == <<" ", "t", "h", "e", "r", "e", ".", " ">>
IncHowAreYou == <<"H", "o", "w", " ", "a", "r", "e", " ", "y", "o", "u", "?">>

\* a lone question mark, and a lone line break
IncQuestion == <<"?">>
IncBlank == <<"\n">>

\* increments for the final flush: a sentence, words without a marker, and a
\* line break on its own
FlushIncrements == {IncHello, IncHow, IncFox, IncBlank}

\* the ways a TextChunker is constructed: the defaults of __init__, and a
\* small minimum with the maximum of TTSHandler
ChunkerConfigs ==
    {[min_chunk_size |-> DefaultMinChunkSize, max_chunk_size |-> DefaultMaxChunkSize],
     [min_chunk_size |-> 5, max_chunk_size |-> MaxSynthLen]}

\* the buffers chunk_streaming_text is called with: what an earlier call left
\* over, followed by the next increment
ChunkerTails ==
    {<<>>, IncHelloWord, IncHow, IncFox, IncFox \o IncFox, Inc200, <<"a", ",", " ">>,
     IncHello}
ChunkerIncrements ==
    {IncHelloWord, IncThere, IncHowAreYou, IncStop, IncNewline, IncFox, Inc200,
     IncHello, IncQuestion, IncBlank}
ChunkerBuffers ==
    {tail \o inc : tail \in ChunkerTails, inc \in ChunkerIncrements} \cup {<<>>}

Frame(json, type, mkind, mtext) ==
    [json |-> json, type |-> type, mkind |-> mkind, mtext |-> mtext]

\* the inbound frames a client may send: text that is not JSON, JSON that is
\* not an object, and objects with or without "type" and "message"
Frames ==
    {Frame("invalid", "absent", "absent", <<>>),
     Frame("array", "absent", "absent", <<>>),
     Frame("object", "chat", "str", <<"h", "i">>),
     Frame("object", "absent", "str", <<>>),
     Frame("object", "chat", "str", <<>>),
     Frame("object", "chat", "str", <<" ", "\n">>),
     Frame("object", "chat", "absent", <<>>),
     Frame("object", "chat", "int", <<>>),
     Frame("object", "chat", "list", <<>>),
     Frame("object", "ping", "absent", <<>>),
     Frame("object", "other", "str", <<"h", "i">>)}

NoFrame == [json |-> "none", type |-> "absent", mkind |-> "absent", mtext |-> <<>>]

\* what the synthesizer and the WAV encoder may do on one call
\* the frames and increments of the turns two clients run side by side
SharedFrames == {Frame("object", "chat", "str", <<"h", "i">>)}
SharedIncrements == {IncHello, IncHow}

\* the increments a turn pulls when two clients run turns side by side
MaxSharedIncrements == 1

SynthOutcomes == {"ok", "tts_raises", "encode_fails"}

\* ------------------------------------------------------------------------
\* LLMHandler.generate_stream (llm_handler.py)
\* ------------------------------------------------------------------------

\* the text yielded by the except clause of generate_stream; str(e) is empty
\* for the streamer's timeout (queue.Empty)
Apology ==
    <<"S", "o", "r", "r", "y", ",", " ", "I", " ", "e", "n", "c", "o", "u", "n",
      "t", "e", "r", "e", "d", " ", "a", "n", " ", "e", "r", "r", "o", "r", " ",
      "w", "h", "i", "l", "e", " ", "g", "e", "n", "e", "r", "a", "t", "i", "n",
      "g", " ", "a", " ", "r", "e", "s", "p", "o", "n", "s", "e", ":", " ">>

\* ------------------------------------------------------------------------
\* TTSHandler.synthesize_text and the chunks synthesize_stream yields
\* ------------------------------------------------------------------------

\* a non-empty base64 WAV payload
B64Audio == <<"U", "k", "l", "G", "R", "g">>

\* TTSHandler.audio_to_base64: "" when the encoder raises
AudioToBase64(outcome) == IF outcome = "encode_fails" THEN <<>> ELSE B64Audio

\* a call that returned value, and a call that raised
Returned(value) == [raised |-> FALSE, value |-> value]
Raised == [raised |-> TRUE, value |-> <<>>]

\* the try block of synthesize_text: "" for blank text, the exception of
\* tts_model.tts when it raises, else the encoded audio
SynthesizeAttempt(text, outcome) ==
    IF Strip(text) = <<>> THEN Returned(<<>>)
    ELSE IF outcome = "tts_raises" THEN Raised
    ELSE Returned(AudioToBase64(outcome))

\* Faulty variant of SynthesizeText: the exception is passed on to the caller.
SynthesizeTextReraise(text, outcome) == SynthesizeAttempt(text, outcome)

\* TTSHandler.synthesize_text: the except clause turns any exception of the
\* try block into the return value ""
SynthesizeText(text, outcome) ==
    LET attempt == SynthesizeAttempt(text, outcome)
    IN IF attempt.raised THEN Returned(<<>>) ELSE attempt

\* Faulty variant of NextChunkCount: the counter is not advanced.
NextChunkCountStuck(chunk_count) == chunk_count

\* chunk_count += 1
NextChunkCount(chunk_count) == chunk_count + 1

\* Faulty variant of ChunkCountAfter: a call that gave no audio advances the
\* counter too.
ChunkCountAfterAnyCall(chunk_count, base64_audio) == NextChunkCount(chunk_count)

\* if base64_audio: chunk_count += 1
ChunkCountAfter(chunk_count, base64_audio) ==
    IF base64_audio # <<>> THEN NextChunkCount(chunk_count) ELSE chunk_count

AudioChunk(base64_audio, text, chunk_count) ==
    [type |-> "audio", data |-> base64_audio, text |-> text, chunk_id |-> chunk_count]

\* Faulty variant of TextChunk: the increment is stripped before it is yielded.
TextChunkStripped(text_chunk, chunk_count) ==
    [type |-> "text", data |-> Strip(text_chunk), text |-> <<>>, chunk_id |-> chunk_count]

TextChunk(text_chunk, chunk_count) ==
    [type |-> "text", data |-> text_chunk, text |-> <<>>, chunk_id |-> chunk_count]

TtsErrorText == <<"T", "T", "S", " ", "e", "r", "r", "o", "r", ":", " ">>

\* the chunk yielded by the except clause of synthesize_stream
ErrorChunk ==
    [type |-> "error", data |-> TtsErrorText, text |-> <<>>, chunk_id |-> 0]

NoChunk == [type |-> "none", data |-> <<>>, text |-> <<>>, chunk_id |-> 0]

\* ------------------------------------------------------------------------
\* ChatHandler (chat_handler.py)
\* ------------------------------------------------------------------------

Message(type, data, full_text, message) ==
    [type |-> type, data |-> data, full_text |-> full_text, message |-> message]

ResponseStart == Message("response_start", NoChunk, <<>>, "Generating response...")
ChunkMessage(chunk) == Message("chunk", chunk, <<>>, "")
ResponseComplete(full_response) ==
    Message("response_complete", NoChunk, full_response, "Response generation completed")
Pong == Message("pong", NoChunk, <<>>, "Server is alive")
ErrorMessage(error_message) == Message("error", NoChunk, <<>>, error_message)

\* Faulty variant of SendMessage: the message overtakes those submitted before it.
SendMessageFirst(log, up, msg) == <<[msg |-> msg, delivered |-> up]>> \o log

\* ChatHandler._send_message: the event is submitted to the socket; a failing
\* send_text is logged and swallowed
SendMessage(log, up, msg) == Append(log, [msg |-> msg, delivered |-> up])

\* ChatHandler._send_error
SendError(log, up, error_message) == SendMessage(log, up, ErrorMessage(error_message))

\* Faulty variant of CollectChunk: the text of audio chunks is collected as well.
CollectChunkAnyText(response_chunks, chunk) ==
    IF chunk.type = "text" THEN Append(response_chunks, chunk.data)
    ELSE IF chunk.type = "audio" THEN Append(response_chunks, chunk.text)
    ELSE response_chunks

\* the body of the loop over audio_stream: text chunks are kept for the
\* final response
CollectChunk(response_chunks, chunk) ==
    IF chunk.type = "text" THEN Append(response_chunks, chunk.data)
    ELSE response_chunks

RECURSIVE SendChunks(_, _, _)
\* the loop over audio_stream, for the chunks the generator yields in one step
SendChunks(log, up, chunks) ==
    IF chunks = <<>> THEN log
    ELSE SendChunks(SendMessage(log, up, ChunkMessage(Head(chunks))), up, Tail(chunks))

RECURSIVE CollectChunks(_, _)
CollectChunks(response_chunks, chunks) ==
    IF chunks = <<>> THEN response_chunks
    ELSE CollectChunks(CollectChunk(response_chunks, Head(chunks)), Tail(chunks))

\* Faulty variant of IsEmptyMessage: the message is not stripped before the test.
IsEmptyMessageNoStrip(user_message) == user_message = <<>>

\* not user_message.strip()
IsEmptyMessage(user_message) == Strip(user_message) = <<>>

\* data.get("message", "")
UserMessage(f) == IF f.mkind = "absent" THEN <<>> ELSE f.mtext

\* data.get("type", "chat")
MessageType(f) == IF f.type = "absent" THEN "chat" ELSE f.type

\* Faulty variant of Dispatch: without the clause `except Exception`, what
\* the frame raises leaves handle_message.
DispatchUncaught(f) ==
    IF f.json = "invalid" THEN "Invalid JSON format"
    ELSE IF f.json # "object" THEN "raise"
    ELSE IF f.mkind = "int" THEN "raise"
    ELSE IF MessageType(f) = "chat"
         THEN IF f.mkind = "list" THEN "raise"
              ELSE IF IsEmptyMessage(UserMessage(f)) THEN "Empty message"
              ELSE "turn"
    ELSE IF MessageType(f) = "ping" THEN "pong"
    ELSE "Unknown message type"

\* ChatHandler.handle_message up to the branch it takes for a frame
Dispatch(f) ==
    IF f.json = "invalid" THEN "Invalid JSON format"
    ELSE IF f.json # "object" THEN "Server error"
    ELSE IF f.mkind = "int" THEN "Server error"
    ELSE IF MessageType(f) = "chat"
         THEN IF f.mkind = "list" THEN "Server error"
              ELSE IF IsEmptyMessage(UserMessage(f)) THEN "Empty message"
              ELSE "turn"
    ELSE IF MessageType(f) = "ping" THEN "pong"
    ELSE "Unknown message type"

\* ------------------------------------------------------------------------
\* State
\* ------------------------------------------------------------------------

VARIABLES
    clients,          \* the connections clients open during the run
    pc,               \* where each connection's coroutine waits
    sinkUp,           \* whether websocket.send_text still succeeds
    frame,            \* the frame handle_message was last called with
    sent,             \* the events submitted to the socket for that frame
    srcState,         \* the text source of the turn: open, caught, raised, ended
    pulled,           \* the increments synthesize_stream has pulled this turn
    text_buffer,      \* synthesize_stream: text_buffer
    chunk_count,      \* synthesize_stream: chunk_count
    pending,          \* the synthesize_text call in flight, with the locals it returns to
    frags,            \* the synthesize_text calls of the turn and how each ended
    response_chunks,  \* _handle_chat_message: response_chunks
    chunker,          \* a TextChunker, the buffer it is called with and what it returned
    detector          \* what the detector of TTSHandler returned for the same buffer

serverVars == <<clients, pc, sinkUp, frame, sent, srcState, pulled, text_buffer,
                chunk_count, pending, frags, response_chunks>>

vars == <<serverVars, chunker, detector>>

NoPending == [synth |-> <<>>, remaining |-> <<>>, text_chunk |-> <<>>]

\* a TextChunker with its call of chunk_streaming_text still to be made
ChunkerCall(config, buffer) ==
    [min_chunk_size |-> config.min_chunk_size, max_chunk_size |-> config.max_chunk_size,
     text_buffer |-> buffer, called |-> FALSE, chunk |-> <<>>, remaining |-> <<>>]

\* the server constructs no TextChunker
NoChunker ==
    ChunkerCall([min_chunk_size |-> DefaultMinChunkSize,
                 max_chunk_size |-> DefaultMaxChunkSize], <<>>)

\* the detector of TTSHandler with its calls still to be made
NoDetector ==
    [called |-> FALSE, should |-> FALSE, synth |-> <<>>, remaining |-> <<>>, tail |-> <<>>]

\* the server after startup, before any of the connections in `opening` is
\* accepted
ServerStart(opening) ==
    /\ clients = opening
    /\ pc = [c \in Conns |-> "closed"]
    /\ sinkUp = [c \in Conns |-> FALSE]
    /\ frame = [c \in Conns |-> NoFrame]
    /\ sent = [c \in Conns |-> <<>>]
    /\ srcState = [c \in Conns |-> "ended"]
    /\ pulled = [c \in Conns |-> <<>>]
    /\ text_buffer = [c \in Conns |-> <<>>]
    /\ chunk_count = [c \in Conns |-> 0]
    /\ pending = [c \in Conns |-> NoPending]
    /\ frags = [c \in Conns |-> <<>>]
    /\ response_chunks = [c \in Conns |-> <<>>]

ServerInit == ServerStart({1})

Init == ServerInit /\ chunker = NoChunker /\ detector = NoDetector

turnVars == <<srcState, pulled, text_buffer, chunk_count, pending, frags, response_chunks>>

\* ------------------------------------------------------------------------
\* main.py: the connection loop
\* ------------------------------------------------------------------------

\* websocket_endpoint: websocket.accept()
Connect(c) ==
    /\ c \in clients
    /\ pc[c] = "closed"
    /\ pc' = [pc EXCEPT ![c] = "idle"]
    /\ sinkUp' = [sinkUp EXCEPT ![c] = TRUE]
    /\ UNCHANGED <<chunker, detector, clients, frame, sent, turnVars>>

\* the client goes away: from now on send_text raises
Disconnect(c) ==
    /\ pc[c] # "closed"
    /\ sinkUp[c]
    /\ sinkUp' = [sinkUp EXCEPT ![c] = FALSE]
    /\ UNCHANGED <<chunker, detector, clients, pc, frame, sent, turnVars>>

\* Faulty variant of CanReceive: a frame is read while the previous one is
\* still being handled.
CanReceiveInTurn(position) == position # "closed"

\* websocket_endpoint: the loop is at receive_text only after the awaited
\* handle_message of the previous frame has returned
CanReceive(position) == position = "idle"

\* websocket_endpoint: receive_text raises WebSocketDisconnect, the loop ends
ReceiveDisconnect(c) ==
    /\ CanReceive(pc[c])
    /\ ~sinkUp[c]
    /\ pc' = [pc EXCEPT ![c] = "closed"]
    /\ frame' = [frame EXCEPT ![c] = NoFrame]
    /\ sent' = [sent EXCEPT ![c] = <<>>]
    /\ srcState' = [srcState EXCEPT ![c] = "ended"]
    /\ pulled' = [pulled EXCEPT ![c] = <<>>]
    /\ text_buffer' = [text_buffer EXCEPT ![c] = <<>>]
    /\ chunk_count' = [chunk_count EXCEPT ![c] = 0]
    /\ frags' = [frags EXCEPT ![c] = <<>>]
    /\ response_chunks' = [response_chunks EXCEPT ![c] = <<>>]
    /\ UNCHANGED <<chunker, detector, clients, sinkUp, pending>>

\* ------------------------------------------------------------------------
\* ChatHandler.handle_message / _handle_chat_message
\* ------------------------------------------------------------------------

\* Faulty variant of TurnPrologue: the acknowledgment is not sent.
TurnPrologueSilent(log, up) == log

\* _handle_chat_message: the acknowledgment sent before the stream is built
TurnPrologue(log, up) == SendMessage(log, up, ResponseStart)

\* Faulty variant of TurnEpilogue: the completion signal is not sent.
TurnEpilogueSilent(log, up, chunks) == log

\* _handle_chat_message: the completion signal sent when audio_stream ends
TurnEpilogue(log, up, chunks) == SendMessage(log, up, ResponseComplete(Concat(chunks)))

\* handle_message called with frame f, up to the first point where the turn
\* waits for the text source (or to its end when no turn is started); an
\* exception that left handle_message would end the connection loop, whose
\* except clause closes the socket
HandleMessage(c, f) ==
    /\ CanReceive(pc[c])
    /\ frame' = [frame EXCEPT ![c] = f]
    /\ pulled' = [pulled EXCEPT ![c] = <<>>]
    /\ text_buffer' = [text_buffer EXCEPT ![c] = <<>>]
    /\ chunk_count' = [chunk_count EXCEPT ![c] = 0]
    /\ pending' = [pending EXCEPT ![c] = NoPending]
    /\ frags' = [frags EXCEPT ![c] = <<>>]
    /\ response_chunks' = [response_chunks EXCEPT ![c] = <<>>]
    /\ LET branch == Dispatch(f)
       IN IF branch = "turn"
          THEN /\ sent' = [sent EXCEPT ![c] = TurnPrologue(<<>>, sinkUp[c])]
               /\ srcState' = [srcState EXCEPT ![c] = "open"]
               /\ pc' = [pc EXCEPT ![c] = "pull"]
          ELSE IF branch = "raise"
          THEN /\ sent' = [sent EXCEPT ![c] = <<>>]
               /\ srcState' = [srcState EXCEPT ![c] = "ended"]
               /\ pc' = [pc EXCEPT ![c] = "closed"]
          ELSE /\ sent' = [sent EXCEPT ![c] =
                    IF branch = "pong" THEN SendMessage(<<>>, sinkUp[c], Pong)
                    ELSE SendError(<<>>, sinkUp[c], branch)]
               /\ srcState' = [srcState EXCEPT ![c] = "ended"]
               /\ UNCHANGED pc
    /\ UNCHANGED <<chunker, detector, clients, sinkUp>>

\* audio_stream is exhausted: the completion signal is sent and handle_message
\* returns to the connection loop
Complete(c, log, chunks) ==
    /\ sent' = [sent EXCEPT ![c] = TurnEpilogue(log, sinkUp[c], chunks)]
    /\ response_chunks' = [response_chunks EXCEPT ![c] = chunks]
    /\ pc' = [pc EXCEPT ![c] = "idle"]

\* the chunks the generator yields in one step reach the loop over audio_stream
Forward(c, chunks) ==
    /\ sent' = [sent EXCEPT ![c] = SendChunks(sent[c], sinkUp[c], chunks)]
    /\ response_chunks' = [response_chunks EXCEPT ![c] = CollectChunks(response_chunks[c], chunks)]

\* ------------------------------------------------------------------------
\* TTSHandler.synthesize_stream
\* ------------------------------------------------------------------------

\* the record kept of a synthesize_text call made for a fragment
Fragment(text, call, flush) ==
    [text |-> text, ok |-> call.value # <<>>, raised |-> call.raised, flush |-> flush]

\* Faulty variant of BufferAfterSynthesis: the text of a fragment whose
\* synthesis failed stays in the buffer.
BufferKeptOnFailure(buffer, remaining_text, base64_audio) ==
    IF base64_audio = <<>> THEN buffer ELSE remaining_text

\* text_buffer = remaining_text, whatever synthesize_text returned
BufferAfterSynthesis(buffer, remaining_text, base64_audio) == remaining_text

\* the except clause of synthesize_stream: an exception raised inside the
\* generator ends it with an error chunk
StreamExcept(c) ==
    /\ Complete(c, SendChunks(sent[c], sinkUp[c], <<ErrorChunk>>),
                CollectChunks(response_chunks[c], <<ErrorChunk>>))
    /\ UNCHANGED <<text_buffer, chunk_count>>

\* one iteration of the loop over text_stream, up to the await of
\* synthesize_text or, when nothing is synthesized, to the next pull
OnIncrement(c, text_chunk) ==
    LET buf == text_buffer[c] \o text_chunk
        cut == ExtractSynthesisText(buf)
    IN /\ pulled' = [pulled EXCEPT ![c] = Append(@, text_chunk)]
       /\ text_buffer' = [text_buffer EXCEPT ![c] = buf]
       /\ IF ShouldSynthesize(buf) /\ cut[1] # <<>>
          THEN /\ pending' = [pending EXCEPT ![c] =
                      [synth |-> cut[1], remaining |-> cut[2], text_chunk |-> text_chunk]]
               /\ pc' = [pc EXCEPT ![c] = "synth"]
               /\ UNCHANGED <<sent, response_chunks>>
          ELSE /\ Forward(c, <<TextChunk(text_chunk, chunk_count[c])>>)
               /\ UNCHANGED <<pending, pc>>
       /\ UNCHANGED <<chunk_count, frags>>

\* the text source yields its next increment
SourceYield(c, text_chunk) ==
    /\ pc[c] = "pull"
    /\ srcState[c] = "open"
    /\ Len(pulled[c]) < MaxIncrements
    /\ OnIncrement(c, text_chunk)
    /\ UNCHANGED <<chunker, detector, clients, sinkUp, frame, srcState>>

\* generate_stream: the streamer raises, the except clause yields the apology
\* as one more increment and the generator then ends
GenerateStreamFail(c) ==
    /\ pc[c] = "pull"
    /\ srcState[c] = "open"
    /\ Len(pulled[c]) < MaxIncrements
    /\ OnIncrement(c, Apology)
    /\ srcState' = [srcState EXCEPT ![c] = "caught"]
    /\ UNCHANGED <<chunker, detector, clients, sinkUp, frame>>

\* the awaited synthesize_text of the loop returns: the audio chunk (if any),
\* then the text chunk of the increment, are yielded
SynthReturn(c, outcome) ==
    /\ pc[c] = "synth"
    /\ LET p == pending[c]
           call == SynthesizeText(p.synth, outcome)
           base64_audio == call.value
           count == ChunkCountAfter(chunk_count[c], base64_audio)
           audio == IF base64_audio # <<>>
                    THEN <<AudioChunk(base64_audio, p.synth, count)>> ELSE <<>>
       IN /\ frags' = [frags EXCEPT ![c] = Append(@, Fragment(p.synth, call, FALSE))]
          /\ IF call.raised
             THEN StreamExcept(c)
             ELSE /\ chunk_count' = [chunk_count EXCEPT ![c] = count]
                  /\ text_buffer' = [text_buffer EXCEPT ![c] =
                         BufferAfterSynthesis(@, p.remaining, base64_audio)]
                  /\ Forward(c, audio \o <<TextChunk(p.text_chunk, count)>>)
                  /\ pc' = [pc EXCEPT ![c] = "pull"]
    /\ pending' = [pending EXCEPT ![c] = NoPending]
    /\ UNCHANGED <<chunker, detector, clients, sinkUp, frame, srcState, pulled>>

\* Faulty variant of FlushNeeded: a buffer of whitespace is flushed too.
FlushNeededNonEmpty(buffer) == buffer # <<>>

\* the test of the final flush: if text_buffer.strip()
FlushNeeded(buffer) == Strip(buffer) # <<>>

\* the text source is exhausted: the rest of the buffer is synthesized, or the
\* generator ends at once when the rest is blank
SourceEnd(c) ==
    /\ pc[c] = "pull"
    /\ srcState[c] \in {"open", "caught"}
    /\ srcState' = [srcState EXCEPT ![c] = IF @ = "open" THEN "ended" ELSE @]
    /\ IF FlushNeeded(text_buffer[c])
       THEN /\ pending' = [pending EXCEPT ![c] =
                   [synth |-> Strip(text_buffer[c]), remaining |-> text_buffer[c],
                    text_chunk |-> <<>>]]
            /\ pc' = [pc EXCEPT ![c] = "flush"]
            /\ UNCHANGED <<sent, response_chunks>>
       ELSE /\ Complete(c, sent[c], response_chunks[c])
            /\ UNCHANGED pending
    /\ UNCHANGED <<chunker, detector, clients, sinkUp, frame, pulled, text_buffer, chunk_count, frags>>

\* the awaited synthesize_text of the final flush returns
FlushReturn(c, outcome) ==
    /\ pc[c] = "flush"
    /\ LET p == pending[c]
           call == SynthesizeText(p.synth, outcome)
           base64_audio == call.value
           count == ChunkCountAfter(chunk_count[c], base64_audio)
           audio == IF base64_audio # <<>>
                    THEN <<AudioChunk(base64_audio, p.synth, count)>> ELSE <<>>
       IN /\ frags' = [frags EXCEPT ![c] = Append(@, Fragment(p.synth, call, TRUE))]
          /\ IF call.raised
             THEN StreamExcept(c)
             ELSE /\ chunk_count' = [chunk_count EXCEPT ![c] = count]
                  /\ UNCHANGED text_buffer
                  /\ Complete(c, SendChunks(sent[c], sinkUp[c], audio),
                              CollectChunks(response_chunks[c], audio))
    /\ pending' = [pending EXCEPT ![c] = NoPending]
    /\ UNCHANGED <<chunker, detector, clients, sinkUp, frame, srcState, pulled>>

\* text_stream raises into synthesize_stream: its except clause yields an
\* error chunk and the generator ends normally
SourceRaise(c) ==
    /\ pc[c] = "pull"
    /\ srcState[c] = "open"
    /\ srcState' = [srcState EXCEPT ![c] = "raised"]
    /\ StreamExcept(c)
    /\ UNCHANGED <<chunker, detector, clients, sinkUp, frame, pulled, pending, frags>>

\* ------------------------------------------------------------------------
\* Specification
\* ------------------------------------------------------------------------

\* the steps of one connection, with the text source drawing from `source`
\* and the client sending frames of `frames`
StepWith(c, source, frames) ==
    \/ Connect(c)
    \/ Disconnect(c)
    \/ ReceiveDisconnect(c)
    \/ \E f \in frames : HandleMessage(c, f)
    \/ \E text_chunk \in source : SourceYield(c, text_chunk)
    \/ GenerateStreamFail(c)
    \/ SourceRaise(c)
    \/ SourceEnd(c)
    \/ \E outcome \in SynthOutcomes : SynthReturn(c, outcome)
    \/ \E outcome \in SynthOutcomes : FlushReturn(c, outcome)

StepOf(c, source) == StepWith(c, source, Frames)

Next == \E c \in Conns : StepOf(c, Increments)

Spec == Init /\ [][Next]_vars

\* the same server, its text source yielding long increments
LongNext == \E c \in Conns : StepOf(c, LongIncrements)

LongSpec == Init /\ [][LongNext]_vars

\* the same server, its text source also yielding a lone line break
FlushNext == \E c \in Conns : StepOf(c, FlushIncrements)

FlushSpec == Init /\ [][FlushNext]_vars

\* two clients connected to the one server, each sending chat messages; the
\* connections share chat_handler, llm_handler and tts_handler
SharedInit == ServerStart(Conns) /\ chunker = NoChunker /\ detector = NoDetector

SharedNext ==
    \E c \in Conns :
        /\ StepWith(c, SharedIncrements, SharedFrames)
        /\ Len(pulled'[c]) <= MaxSharedIncrements

SharedSpec == SharedInit /\ [][SharedNext]_vars

\* TextChunker.chunk_streaming_text called once on a buffer
ChunkStreaming ==
    /\ ~chunker.called
    /\ LET result == ChunkStreamingText(chunker.text_buffer, chunker.min_chunk_size,
                                        chunker.max_chunk_size)
       IN chunker' = [chunker EXCEPT !.called = TRUE,
                                     !.chunk = result[1],
                                     !.remaining = result[2]]
    /\ UNCHANGED <<serverVars, detector>>

\* the buffer synthesize_stream keeps after one iteration of its loop: the
\* remaining text when a fragment was extracted, else the buffer as it is
TailAfter(buffer) ==
    IF ShouldSynthesize(buffer) /\ ExtractSynthesisText(buffer)[1] # <<>>
    THEN ExtractSynthesisText(buffer)[2]
    ELSE buffer

\* TTSHandler._should_synthesize and _extract_synthesis_text called once on
\* the same buffer
ExtractSynthesis ==
    /\ ~detector.called
    /\ LET result == ExtractSynthesisText(chunker.text_buffer)
       IN detector' = [called |-> TRUE,
                       should |-> ShouldSynthesize(chunker.text_buffer),
                       synth |-> result[1],
                       remaining |-> result[2],
                       tail |-> TailAfter(chunker.text_buffer)]
    /\ UNCHANGED <<serverVars, chunker>>

ChunkerInit ==
    /\ ServerInit
    /\ chunker \in {ChunkerCall(config, buffer) :
                        config \in ChunkerConfigs, buffer \in ChunkerBuffers}
    /\ detector = NoDetector

ChunkerNext == ChunkStreaming \/ ExtractSynthesis

ChunkerSpec == ChunkerInit /\ [][ChunkerNext]_vars

\* the increments of the runs checked for progress: one that completes a
\* fragment at once and one that stays in the buffer until the flush
LiveIncrements == {IncHello, IncHow}

LiveNext == \E c \in Conns : StepOf(c, LiveIncrements)

\* every awaited synthesize_text call returns (run_in_executor completes)
SynthesisReturns(c) ==
    \/ \E outcome \in SynthOutcomes : SynthReturn(c, outcome)
    \/ \E outcome \in SynthOutcomes : FlushReturn(c, outcome)

\* the event loop resumes a turn's coroutine whenever it can run: an awaited
\* synthesis returns, and the text source, which generates at most
\* max_new_tokens tokens, does not stay open for ever
FairSpec ==
    /\ Init
    /\ [][LiveNext]_vars
    /\ \A c \in Conns : WF_vars(SynthesisReturns(c)) /\ WF_vars(SourceEnd(c))

\* ------------------------------------------------------------------------
\* Observations on the events submitted to the socket
\* ------------------------------------------------------------------------

IsStart(e) == e.msg.type = "response_start"
IsComplete(e) == e.msg.type = "response_complete"
IsTopError(e) == e.msg.type = "error"
IsTerminal(e) == IsComplete(e) \/ IsTopError(e)
IsText(e) == e.msg.type = "chunk" /\ e.msg.data.type = "text"
IsAudio(e) == e.msg.type = "chunk" /\ e.msg.data.type = "audio"
IsErrorChunk(e) == e.msg.type = "chunk" /\ e.msg.data.type = "error"

Front(seq) == SubSeq(seq, 1, Len(seq) - 1)
Last(seq) == seq[Len(seq)]

\* the data of the text events of a log, in emitted order
TextData(log) ==
    LET texts == SelectSeq(log, IsText)
    IN [i \in 1..Len(texts) |-> texts[i].msg.data.data]

\* the chunk_id of the audio events of a log, in emitted order
AudioIds(log) ==
    LET audios == SelectSeq(log, IsAudio)
    IN [i \in 1..Len(audios) |-> audios[i].msg.data.chunk_id]

\* the texts of the fragments extracted while the source was still streaming
StreamedFragments(c) ==
    LET cut == SelectSeq(frags[c], LAMBDA g : ~g.flush)
    IN [i \in 1..Len(cut) |-> cut[i].text]

\* a chat frame whose text is missing, empty or only whitespace, or a frame
\* that is not JSON
RejectedFrame(f) ==
    \/ f.json = "invalid"
    \/ /\ f.json = "object"
       /\ f.type \in {"chat", "absent"}
       /\ \/ f.mkind = "absent"
          \/ f.mkind = "str" /\ \A i \in 1..Len(f.mtext) : IsSpace(f.mtext[i])

\* a chat frame with a text that has a non-whitespace character
AcceptedFrame(f) ==
    /\ f.json = "object"
    /\ f.type \in {"chat", "absent"}
    /\ f.mkind = "str"
    /\ \E i \in 1..Len(f.mtext) : ~IsSpace(f.mtext[i])

InTurn(c) == pc[c] \in {"pull", "synth", "flush"}

\* ------------------------------------------------------------------------
\* Claims
\* ------------------------------------------------------------------------

\* C1: a chat message whose text is empty or whitespace-only, or a frame that
\* is not valid JSON, is answered with exactly one event, a top-level error:
\* no response_start, no chunk and no response_complete is submitted for it.
C1_RejectedInputSingleError ==
    \A c \in Conns :
        RejectedFrame(frame[c]) =>
            /\ Len(sent[c]) = 1
            /\ IsTopError(sent[c][1])
            /\ pc[c] \in {"idle", "closed"}

\* a whitespace-only chat message has been handled
C1_Witness ==
    \E c \in Conns :
        /\ frame[c].mkind = "str"
        /\ frame[c].mtext = <<" ", "\n">>
        /\ Len(sent[c]) = 1
        /\ sent[c][1].msg.message = "Empty message"

\* C2: for every accepted chat message response_start is submitted exactly
\* once and is the first event of the turn.
C2_StartFirstAndOnce ==
    \A c \in Conns :
        AcceptedFrame(frame[c]) =>
            /\ sent[c] # <<>>
            /\ IsStart(sent[c][1])
            /\ \A i \in 2..Len(sent[c]) : ~IsStart(sent[c][i])

\* a turn that ran to its end with text and audio events behind response_start
C2_Witness ==
    \E c \in Conns :
        /\ AcceptedFrame(frame[c])
        /\ pc[c] = "idle"
        /\ Len(sent[c]) >= 4
        /\ \E i \in 1..Len(sent[c]) : IsAudio(sent[c][i])
        /\ \E i \in 1..Len(sent[c]) : IsText(sent[c][i])

\* C3: the text events of a turn are, in order, exactly the increments pulled
\* from the text source, one event per increment with the increment as its
\* content; only the increment whose fragment is still being synthesized has
\* its text event outstanding.  Fragment cuts and synthesis failures do not
\* change this.
C3_TextEventsAreIncrements ==
    \A c \in Conns :
        TextData(sent[c]) = IF pc[c] = "synth" THEN Front(pulled[c]) ELSE pulled[c]

\* a finished turn of three increments in which a synthesis failed and a
\* fragment was cut
C3_Witness ==
    \E c \in Conns :
        /\ pc[c] = "idle"
        /\ Len(pulled[c]) = 3
        /\ \E i \in 1..Len(frags[c]) : ~frags[c][i].ok
        /\ \E i \in 1..Len(frags[c]) : frags[c][i].ok
        /\ TextData(sent[c]) = pulled[c]

\* C4: the text event of an increment is emitted before the synthesis of a
\* fragment completed by that increment is awaited: while a synthesis call is
\* in flight, every pulled increment already has its text event.
C4_TextNeverWaitsOnSynthesis ==
    \A c \in Conns :
        pc[c] = "synth" => Len(TextData(sent[c])) = Len(pulled[c])

\* C5: the audio events of a turn carry strictly increasing chunk_id.
C5_AudioIdsIncrease ==
    \A c \in Conns :
        LET ids == AudioIds(sent[c])
        IN \A i, j \in 1..Len(ids) : i < j => ids[i] < ids[j]

\* a turn with three audio events
C5_Witness ==
    \E c \in Conns : Len(AudioIds(sent[c])) >= 3

\* C6: the full_text of response_complete is the in-order concatenation of
\* every increment pulled during the turn, which is also the concatenation of
\* the data of the text chunks sent.
C6_FullTextIsAllIncrements ==
    \A c \in Conns :
        \A i \in 1..Len(sent[c]) :
            IsComplete(sent[c][i]) =>
                /\ sent[c][i].msg.full_text = Concat(pulled[c])
                /\ sent[c][i].msg.full_text = Concat(TextData(sent[c]))

\* a completed turn of several increments with an audio event and a failed
\* synthesis
C6_Witness ==
    \E c \in Conns :
        /\ sent[c] # <<>>
        /\ IsComplete(Last(sent[c]))
        /\ Len(pulled[c]) >= 2
        /\ Last(sent[c]).msg.full_text # <<>>
        /\ \E i \in 1..Len(sent[c]) : IsAudio(sent[c][i])
        /\ \E i \in 1..Len(frags[c]) : ~frags[c][i].ok

\* C7: while the source is streaming, the texts of the fragments extracted so
\* far followed by the unconsumed tail are the concatenation of the increments
\* appended so far, whitespace included.
C7_NoLossConcatenation ==
    \A c \in Conns :
        pc[c] \in {"pull", "synth"} =>
            Concat(StreamedFragments(c)) \o text_buffer[c] = Concat(pulled[c])

\* the text source failed after it had yielded at least one increment
SourceFailedMidStream(c) ==
    \/ srcState[c] = "raised" /\ Len(pulled[c]) >= 1
    \/ srcState[c] = "caught" /\ Len(pulled[c]) >= 2

\* C8: when the text source fails mid-stream, response_complete is never
\* emitted for the turn and the turn ends with an error event as its last
\* event.
C8_SourceFailureEndsInError ==
    \A c \in Conns :
        SourceFailedMidStream(c) =>
            /\ \A i \in 1..Len(sent[c]) : ~IsComplete(sent[c][i])
            /\ pc[c] = "idle" => IsTopError(Last(sent[c]))

\* C9 (Scenario C): in a finished turn of three fragments where the synthesis
\* of the second failed and the others succeeded, the events hold an audio
\* event for fragment 1 before an audio event for fragment 3, an error-tagged
\* event that references fragment 2, and response_complete as the last event.
C9_ScenarioC ==
    \A c \in Conns :
        ( /\ pc[c] = "idle"
          /\ Len(frags[c]) = 3
          /\ frags[c][1].ok /\ ~frags[c][2].ok /\ frags[c][3].ok )
        =>
            /\ \E i, j \in 1..Len(sent[c]) :
                  /\ i < j
                  /\ IsAudio(sent[c][i]) /\ sent[c][i].msg.data.chunk_id = 1
                  /\ IsAudio(sent[c][j]) /\ sent[c][j].msg.data.chunk_id = 3
            /\ \E i \in 1..Len(sent[c]) :
                  /\ IsTopError(sent[c][i]) \/ IsErrorChunk(sent[c][i])
                  /\ sent[c][i].msg.data.chunk_id = 2
            /\ IsComplete(Last(sent[c]))

\* a turn is under way and no terminal event has been submitted for it
TurnOpen(c) ==
    /\ InTurn(c)
    /\ sent[c] # <<>>
    /\ IsStart(sent[c][1])

\* the turn has ended: its last event is its single terminal event
TurnClosed(c) ==
    /\ pc[c] = "idle"
    /\ sent[c] # <<>>
    /\ IsStart(sent[c][1])
    /\ IsTerminal(Last(sent[c]))

\* at most one terminal event, and nothing after it
OneTerminalLast(c) ==
    \A i \in 1..Len(sent[c]) :
        (IsStart(sent[c][1]) /\ IsTerminal(sent[c][i])) => i = Len(sent[c])

\* C10: every turn that emitted response_start eventually emits exactly one
\* terminal event (response_complete or a top-level error, never both), and
\* no event of the turn follows the terminal event.
C10_ExactlyOneTerminalEvent ==
    /\ [](\A c \in Conns : OneTerminalLast(c))
    /\ \A c \in Conns : TurnOpen(c) ~> TurnClosed(c)

\* a turn that has ended with its terminal event after text and audio events
C10_Witness ==
    \E c \in Conns :
        /\ TurnClosed(c)
        /\ Len(sent[c]) >= 4
        /\ \E i \in 1..Len(sent[c]) : IsAudio(sent[c][i])

\* ------------------------------------------------------------------------
\* Fragments cut while the source is still streaming
\* ------------------------------------------------------------------------

\* a fragment has been extracted from the buffer of c and its synthesis is
\* awaited, the source not being exhausted
Extracting(c) == pc[c] = "synth"

\* C11: every fragment extracted before the text source is exhausted is at
\* least MinSynthLen (10) characters long.
C11_MinimumFragmentLength ==
    \A c \in Conns :
        /\ Extracting(c) => Len(pending[c].synth) >= MinSynthLen
        /\ \A i \in 1..Len(frags[c]) :
               ~frags[c][i].flush => Len(frags[c][i].text) >= MinSynthLen

\* ------------------------------------------------------------------------
\* Failed deliveries and disconnection
\* ------------------------------------------------------------------------

\* an event of the turn of c was submitted to the socket and its send raised
DeliveryFailed(c) ==
    /\ sent[c] # <<>>
    /\ IsStart(sent[c][1])
    /\ \E i \in 1..Len(sent[c]) : ~sent[c][i].delivered

\* C13: a failed delivery is fatal to the turn: the event whose send raised is
\* the last event the turn submits, and no synthesis is started after it.
C13_SinkFailureIsFatal ==
    \A c \in Conns :
        DeliveryFailed(c) =>
            /\ \A i \in 1..Len(sent[c]) : ~sent[c][i].delivered => i = Len(sent[c])
            /\ pc[c] \notin {"synth", "flush"}

\* the transport of c went away after the turn in progress had started (its
\* response_start was still delivered)
DisconnectedInTurn(c) ==
    /\ InTurn(c)
    /\ ~sinkUp[c]
    /\ sent[c] # <<>>
    /\ sent[c][1].delivered

\* C14: once the transport has disconnected during a turn, the turn pulls no
\* further increment from the text source and does not end with
\* response_complete.
C14_DisconnectCancelsTurn ==
    [][\A c \in Conns :
           DisconnectedInTurn(c) =>
               /\ pulled'[c] = pulled[c]
               /\ sent'[c] # <<>> => ~IsComplete(Last(sent'[c]))]_vars

\* the characters a sentence or phrase marker leaves at the end of a stripped
\* fragment
MarkerEnds == {".", "!", "?", ",", ";", "-", EmDash}

\* the fragment is a run of whole words from the start of the buffer it was
\* cut from, and its end is followed by whitespace in that buffer or is the
\* punctuation of a marker
EndsAtBoundary(fragment, buffer) ==
    LET fw == Split(fragment)
        bw == Split(buffer)
    IN /\ Len(fw) <= Len(bw)
       /\ fw = SubSeq(bw, 1, Len(fw))
       /\ \/ Len(fw) < Len(bw)
          \/ IsSpace(buffer[Len(buffer)])
          \/ fragment[Len(fragment)] \in MarkerEnds

\* C20: every fragment extracted before the end of the turn ends right after
\* a sentence or phrase marker or at a whitespace word boundary, never in the
\* middle of a word.
C20_FragmentsEndAtBoundary ==
    \A c \in Conns :
        Extracting(c) => EndsAtBoundary(pending[c].synth, text_buffer[c])

\* ------------------------------------------------------------------------
\* Synthesis failures
\* ------------------------------------------------------------------------

\* the non-whitespace characters of a text, in order
NonSpace(text) == SelectSeq(text, LAMBDA ch : ~IsSpace(ch))

\* the synthesis of a fragment cut while streaming has failed in the turn of c
FragmentFailed(c) ==
    \E i \in 1..Len(frags[c]) : ~frags[c][i].flush /\ ~frags[c][i].ok

\* the failed fragment has left the buffer for good: the fragments cut so far
\* followed by the buffer hold the characters of the increments once each
NoRetry(c) ==
    FragmentFailed(c) =>
        NonSpace(Concat(StreamedFragments(c)) \o text_buffer[c])
            = NonSpace(Concat(pulled[c]))

\* every increment pulled after the failure has had its text event
TextEventsGoOn(c) ==
    (FragmentFailed(c) /\ pc[c] \in {"pull", "flush", "idle"}) =>
        TextData(sent[c]) = pulled[c]

\* the turn has ended with response_complete
TurnCompleted(c) ==
    /\ pc[c] = "idle"
    /\ sent[c] # <<>>
    /\ IsComplete(Last(sent[c]))

\* C17: after the synthesis of a fragment fails the turn continues: the
\* fragment's text has left the buffer and is not synthesized again, every
\* increment still gets its text event, and the turn reaches
\* response_complete.
C17_TurnSurvivesSynthesisFailure ==
    /\ [](\A c \in Conns : NoRetry(c) /\ TextEventsGoOn(c))
    /\ \A c \in Conns : (InTurn(c) /\ FragmentFailed(c)) ~> TurnCompleted(c)

\* a completed turn in which a fragment failed and a later fragment, cut from
\* later increments, was synthesized
C17_Witness ==
    \E c \in Conns :
        /\ TurnCompleted(c)
        /\ \E i, j \in 1..Len(frags[c]) :
               /\ i < j
               /\ ~frags[c][i].flush /\ ~frags[c][i].ok
               /\ frags[c][j].ok
        /\ TextData(sent[c]) = pulled[c]
        /\ Len(pulled[c]) >= 2

\* C18: synthesize_text never raises to its caller: every call made for a
\* fragment returned a value, and the except clause of synthesize_stream is
\* entered only by an exception of the text source.
C18_SynthesizeTextNeverRaises ==
    \A c \in Conns :
        /\ \A i \in 1..Len(frags[c]) : ~frags[c][i].raised
        /\ \A i \in 1..Len(sent[c]) :
               IsErrorChunk(sent[c][i]) => srcState[c] = "raised"

\* a call of synthesize_text failed and was seen as a value: no audio and no
\* error chunk came of it, and the stream went on to a later fragment
C18_Witness ==
    \E c \in Conns :
        /\ Len(frags[c]) >= 2
        /\ ~frags[c][1].ok
        /\ ~frags[c][1].raised
        /\ \A i \in 1..Len(sent[c]) : ~IsErrorChunk(sent[c][i])

\* ------------------------------------------------------------------------
\* Long buffers and the two scenarios
\* ------------------------------------------------------------------------

\* _extract_synthesis_text cuts the text at a sentence ending or at a natural
\* break (its first two return statements)
MarkerCut(text) ==
    LET best1 == SentenceScan(text, ExtractSentenceEndings, 1, -1)
    IN \/ best1 > 0
       \/ Len(text) > NaturalBreakLen /\ BreakScan(text, NaturalBreaks, 1, best1) > 0

\* C12: no fragment extracted while streaming is longer than MaxSynthLen (80)
\* unless it is a single unbroken token or comes from the forced word cut: a
\* cut at a sentence or phrase marker never gives a longer fragment.
C12_MaximumFragmentLength ==
    \A c \in Conns :
        (Extracting(c) /\ Len(pending[c].synth) > MaxSynthLen) =>
            \/ Len(Split(pending[c].synth)) = 1
            \/ ~MarkerCut(text_buffer[c])

\* the length of the longest word of a text
LongestWord(text) ==
    LET words == Split(text)
    IN Highest({Len(words[i]) : i \in 1..Len(words)})

\* C16 (Scenario B): a turn whose source yields one increment of 200
\* characters of words without punctuation and then ends has at least two
\* fragments, each at most MaxSynthLen (80) characters plus one word long.
C16_ScenarioB ==
    \A c \in Conns :
        (pulled[c] = <<Inc200>> /\ srcState[c] = "ended" /\ TurnCompleted(c)) =>
            /\ Len(frags[c]) >= 2
            /\ \A i \in 1..Len(frags[c]) :
                   Len(frags[c][i].text) <= MaxSynthLen + LongestWord(Inc200)

\* the detector would still cut the text
Extractable(text) == ShouldSynthesize(text) /\ ExtractSynthesisText(text)[1] # <<>>

\* C19: when synthesize_stream has finished with an increment and waits for
\* the next, its buffer is shorter than MinSynthLen or holds nothing the
\* detector would cut.
C19_TailHasNoBoundaryLeft ==
    \A c \in Conns :
        pc[c] = "pull" =>
            \/ Len(text_buffer[c]) < MinSynthLen
            \/ ~Extractable(text_buffer[c])

\* C15 (Scenario A): with a minimum of 5, "Hello" gives no cut, "Hello there. "
\* is cut after its sentence end leaving nothing, and "How are you?" is not
\* cut while streaming (it is left for the flush at the end of the turn).
C15_ScenarioA ==
    (chunker.called /\ chunker.min_chunk_size = 5) =>
        /\ chunker.text_buffer = IncHelloWord => chunker.chunk = <<>>
        /\ chunker.text_buffer = IncHelloWord \o IncThere =>
               /\ chunker.chunk = Strip(IncHelloWord \o IncThere)
               /\ chunker.remaining = <<>>
        /\ chunker.text_buffer = IncHowAreYou =>
               /\ chunker.chunk = <<>>
               /\ chunker.remaining = IncHowAreYou

\* ------------------------------------------------------------------------
\* TextChunker.chunk_streaming_text and the detector of TTSHandler as functions
\* ------------------------------------------------------------------------

\* the offsets just after the sentence endings that start at or after
\* min_chunk_size in the buffer
StrongEnds(buffer, min_chunk_size) ==
    LET hits == {p \in (min_chunk_size..Len(buffer)) \X (1..Len(ChunkerSentenceEndings)) :
                    MatchAt(buffer, ChunkerSentenceEndings[p[2]], p[1])}
    IN {p[1] + Len(ChunkerSentenceEndings[p[2]]) : p \in hits}

\* C21: when the buffer holds a sentence ending at or after min_chunk_size,
\* chunk_streaming_text cuts right after the last such ending: the chunk is
\* the longest prefix that ends with a sentence ending (stripped), the
\* remainder is the rest.
C21_CutAfterLastStrongMarker ==
    LET buffer == chunker.text_buffer
        ends == StrongEnds(buffer, chunker.min_chunk_size)
    IN (chunker.called /\ ends # {}) =>
           /\ chunker.chunk = Strip(Prefix(buffer, Highest(ends)))
           /\ chunker.remaining = Strip(Suffix(buffer, Highest(ends)))

\* no sentence ending and no phrase boundary occurs anywhere in the text
NoMarker(text) ==
    /\ \A k \in 1..Len(ChunkerSentenceEndings) : ~Contains(ChunkerSentenceEndings[k], text)
    /\ \A k \in 1..Len(PhraseBoundaries) : ~Contains(PhraseBoundaries[k], text)

\* chunk_streaming_text was called on a buffer without markers, longer than
\* max_chunk_size and of at least two words
ForcedCutCase ==
    /\ chunker.called
    /\ NoMarker(chunker.text_buffer)
    /\ Len(chunker.text_buffer) > chunker.max_chunk_size
    /\ Len(Split(chunker.text_buffer)) >= 2

\* C22: on a buffer without markers that is longer than max_chunk_size and has
\* at least two words, chunk_streaming_text cuts at the middle word boundary:
\* the chunk is the first half of the words, it is not empty, and the
\* remainder is the other words and is strictly shorter than the buffer.
C22_ForcedCutAtMiddleWord ==
    ForcedCutCase =>
        LET words == Split(chunker.text_buffer)
            half == Len(words) \div 2
        IN /\ chunker.chunk # <<>>
           /\ Split(chunker.chunk) = SubSeq(words, 1, half)
           /\ Split(chunker.remaining) = SubSeq(words, half + 1, Len(words))
           /\ Len(chunker.remaining) < Len(chunker.text_buffer)

\* a buffer of 88 characters and 18 words cut in the middle for a maximum of 80
C22_Witness ==
    /\ ForcedCutCase
    /\ chunker.text_buffer = IncFox \o IncFox
    /\ Len(Split(chunker.chunk)) = 9
    /\ Len(Split(chunker.remaining)) = 9

\* C23: a buffer shorter than the minimum is never cut, whatever markers it
\* holds and also when it is empty: chunk_streaming_text returns an empty
\* chunk and the buffer itself, and _should_synthesize is false, so that
\* synthesize_stream synthesizes nothing and keeps its buffer.
C23_ShortTailIsNeverCut ==
    /\ (chunker.called /\ Len(chunker.text_buffer) < chunker.min_chunk_size) =>
           /\ chunker.chunk = <<>>
           /\ chunker.remaining = chunker.text_buffer
    /\ (detector.called /\ Len(chunker.text_buffer) < MinSynthLen) =>
           /\ ~detector.should
           /\ detector.tail = chunker.text_buffer

\* both detectors were called on "Hello. ", which is shorter than 10 and holds
\* a sentence ending, and neither cut it
C23_Witness ==
    /\ chunker.called
    /\ detector.called
    /\ chunker.text_buffer = IncHelloWord \o IncStop
    /\ chunker.min_chunk_size = DefaultMinChunkSize
    /\ chunker.chunk = <<>>
    /\ ~detector.should

\* the turn of connection c ran until its text source was exhausted and the
\* generator ended after the final flush
SourceExhausted(c) ==
    /\ pc[c] = "idle"
    /\ AcceptedFrame(frame[c])
    /\ srcState[c] \in {"ended", "caught"}

\* the texts of the fragments the final flush of the turn synthesized
FlushedFragments(c) ==
    LET cut == SelectSeq(frags[c], LAMBDA g : g.flush)
    IN [i \in 1..Len(cut) |-> cut[i].text]

InFlight(c) == pc[c] \in {"synth", "flush"}

\* the texts of the audio events submitted for the turn, in the order submitted
AudioTexts(log) ==
    LET audios == SelectSeq(log, IsAudio)
    IN [i \in 1..Len(audios) |-> audios[i].msg.data.text]

\* the texts of the fragments whose synthesis gave audio, in the order extracted
SynthesizedTexts(c) ==
    LET done == SelectSeq(frags[c], LAMBDA g : g.ok)
    IN [i \in 1..Len(done) |-> done[i].text]

OneCallInOrder(c) ==
    /\ AudioTexts(sent[c]) = SynthesizedTexts(c)
    /\ InFlight(c) =>
           /\ pulled'[c] = pulled[c]
           /\ pending'[c] \in {pending[c], NoPending}
           /\ frags'[c] \in {frags[c], <<>>}
              \/ /\ Front(frags'[c]) = frags[c]
                 /\ Last(frags'[c]).text = pending[c].synth
    /\ ~InFlight(c) => frags'[c] \in {frags[c], <<>>}

\* C25: within a turn at most one synthesis call is in flight (while a call
\* has not returned, no increment is pulled and no other fragment is
\* extracted, and the call that returns is the one last extracted), and the
\* audio events are submitted in the order their fragments were extracted.
C25_OneSynthesisInFlightInOrder == [][\A c \in Conns : OneCallInOrder(c)]_vars

\* two fragments were extracted and synthesized one after the other, and
\* their audio events were submitted in that order
C25_Witness ==
    \E c \in Conns :
        /\ Len(frags[c]) = 2
        /\ frags[c][1].text # frags[c][2].text
        /\ AudioTexts(sent[c]) = <<frags[c][1].text, frags[c][2].text>>
        /\ InFlight(c)

\* C26: calls to the shared synthesizer are serialized across turns: no two
\* connections have a synthesize_text call in flight at the same time.
C26_SynthesizerCallsSerialized ==
    \A c, d \in Conns : (c # d /\ InFlight(c)) => ~InFlight(d)

\* log is the beginning of longer
IsPrefix(log, longer) ==
    /\ Len(log) <= Len(longer)
    /\ SubSeq(longer, 1, Len(log)) = log

\* C27: on one connection no message is read while the previous one is still
\* handled: during a turn the frame being handled stays the same and events
\* are only added to those already submitted for it, and a frame is read only
\* when the connection is past the last event of the frame before.
C27_TurnsDoNotInterleave ==
    [][\A c \in Conns :
          /\ InTurn(c) => /\ frame'[c] = frame[c]
                          /\ IsPrefix(sent[c], sent'[c])
          /\ (frame'[c] # frame[c] \/ ~IsPrefix(sent[c], sent'[c])) => pc[c] = "idle"]_vars

\* a turn in the middle of its events: the acknowledgment, an audio event and
\* a text event are submitted, and the text source is being pulled again
C27_Witness ==
    \E c \in Conns :
        /\ pc[c] = "pull"
        /\ Len(sent[c]) >= 3
        /\ IsStart(sent[c][1])
        /\ IsAudio(sent[c][2])
        /\ IsText(sent[c][3])

\* C28: handle_message never raises to the connection loop: whatever the
\* frame and whatever fails in the text source, the synthesizer or the sink,
\* the loop is back at receive_text afterwards. A connection is closed only
\* by the disconnect of its client, read at receive_text, and never while its
\* client is there.
C28_HandleMessageNeverRaises ==
    [][\A c \in Conns :
          /\ sinkUp[c] => pc[c] # "closed"
          /\ (pc[c] # "closed" /\ pc'[c] = "closed") =>
                 /\ pc[c] = "idle"
                 /\ ~sinkUp[c]
                 /\ frame'[c] = NoFrame
          /\ frame'[c] \notin {frame[c], NoFrame} => pc'[c] \in {"idle", "pull"}]_vars

\* a frame that is JSON but no object (data.get raises AttributeError) was
\* answered with a server error, and the loop waits for the next frame
C28_Witness ==
    \E c \in Conns :
        /\ pc[c] = "idle"
        /\ sinkUp[c]
        /\ frame[c] # NoFrame
        /\ frame[c].json \notin {"invalid", "object"}
        /\ sent[c] = <<[msg |-> ErrorMessage("Server error"), delivered |-> TRUE]>>

\* the number of audio events among the first n events of log
AudiosAmong(log, n) == Len(SelectSeq(SubSeq(log, 1, n), IsAudio))

\* C29: the audio events of a turn carry chunk_id 1, 2, 3, ... without gaps,
\* one per fragment whose synthesis gave audio (a failed fragment takes no
\* identifier), and every text event carries the number of audio events
\* submitted before it in the turn.
C29_ChunkIdsCountAudio ==
    \A c \in Conns :
        /\ Len(AudioIds(sent[c])) = Len(SynthesizedTexts(c))
        /\ \A i \in 1..Len(sent[c]) :
               /\ IsAudio(sent[c][i]) =>
                      sent[c][i].msg.data.chunk_id = AudiosAmong(sent[c], i)
               /\ IsText(sent[c][i]) =>
                      sent[c][i].msg.data.chunk_id = AudiosAmong(sent[c], i - 1)

\* a fragment failed, the next one gave the audio event with chunk_id 1, and
\* text events were submitted before it and after it
C29_Witness ==
    \E c \in Conns :
        /\ Len(frags[c]) >= 2
        /\ ~frags[c][1].ok
        /\ frags[c][2].ok
        /\ AudioIds(sent[c]) = <<1>>
        /\ \E i, j \in 1..Len(sent[c]) :
               /\ IsText(sent[c][i]) /\ sent[c][i].msg.data.chunk_id = 0
               /\ IsText(sent[c][j]) /\ sent[c][j].msg.data.chunk_id = 1

\* C30: every split returned by _extract_synthesis_text and by
\* chunk_streaming_text keeps the characters of the buffer that are not
\* whitespace: those of the fragment followed by those of the remainder are
\* those of the buffer, in order.
C30_SplitsKeepNonSpace ==
    /\ chunker.called =>
           NonSpace(chunker.chunk) \o NonSpace(chunker.remaining)
               = NonSpace(chunker.text_buffer)
    /\ detector.called =>
           NonSpace(detector.synth) \o NonSpace(detector.remaining)
               = NonSpace(chunker.text_buffer)

\* "Hello there. Hello" was cut after the sentence by both functions, the
\* space after the full stop dropped
C30_Witness ==
    /\ chunker.called
    /\ detector.called
    /\ chunker.text_buffer = IncHello \o IncHelloWord
    /\ chunker.chunk = Strip(IncHello)
    /\ chunker.remaining = IncHelloWord
    /\ detector.synth = Strip(IncHello)
    /\ detector.remaining = IncHelloWord

====
